---- MODULE Spec2Model ----
(***************************************************************************)
(* leansig: hash-based few-time signatures (Winternitz chains under a      *)
(* Merkle tree) and the naive aggregate verifier, crates/core.             *)
(*                                                                         *)
(* Byte strings are sequences of integers.  The Keccak permutation is an   *)
(* ideal, collision-free hash: its 32-byte output is represented by the    *)
(* bracketed input it was computed from, so two outputs are equal exactly  *)
(* when the inputs were equal.  The leading bytes of an output, which the  *)
(* codeword is cut from, are a fixed mixing function of the input.         *)
(***************************************************************************)
EXTENDS Integers, Sequences, FiniteSets, TLC

VARIABLE signer  \* the Signer objects, by handle

(* ------------------------------ bounds -------------------------------- *)
MaxSeed == 1
MaxRetries == 2
MaxMessage == 1
MaxLifetime == 4
MaxDraws == 3
NonceSpace == 4
MaxLeaves == 4
MaxLeafValue == 1
MaxHeight == 1
MaxAgg == 2
MaxTestRetries == 4
MaxPos == 2
MaxSteps == 3
MaxBytes == 2
MaxHashes == 2
MaxWalk == 16
MaxParamLen == 1
MaxEndHashes == 3

Seeds == 0..MaxSeed
Messages == 0..MaxMessage
Lifetimes == 0..MaxLifetime
Epochs == 0..MaxLifetime
Retries == 0..MaxRetries

(* --------------------------- hash.rs ---------------------------------- *)
TWEAK_CHAIN == 0
TWEAK_TREE == 1
TWEAK_MESSAGE == 2
HASH_LEN == 32
RAND_LEN == 23

\* Keccak::v256(), update(bytes)..., finalize(): the output stands for its input,
\* bracketed by 254 and 255 (every other byte of the model is below 252)
Keccak(bytes) == <<254>> \o bytes \o <<255>>

RECURSIVE Absorb(_, _)
Absorb(bytes, acc) ==
    IF bytes = <<>> THEN acc
    ELSE Absorb(Tail(bytes), (acc * 4 + Head(bytes)) % 256)

\* byte k (from 0) of a hash output
HashByte(h, k) == (Absorb(SubSeq(h, 2, Len(h) - 1), 0) * 139 + 175 + 101 * k) % 256

\* a machine word is its bytes in memory, least significant first: 8 bytes for a
\* usize or u64, 4 for a u32; usize_of(n) is the usize whose value is the number
\* n (below 2^31), usize_value its way back
usize_of(n) ==
    <<n % 256, (n \div 256) % 256, (n \div 65536) % 256, (n \div 16777216) % 256,
      0, 0, 0, 0>>
usize_value(x) == x[1] + 256 * x[2] + 65536 * x[3] + 16777216 * x[4]

\* `as u32` keeps the low 4 bytes; `as u64` of a usize keeps all 8
as_u32(x) == SubSeq(x, 1, 4)
as_u64(x) == SubSeq(x, 1, 8)

\* index & 1 and index / 2 on a usize
low_bit(x) == x[1] % 2
half(x) ==
    [i \in 1..Len(x) |->
        (x[i] \div 2) + (IF i < Len(x) THEN 128 * (x[i + 1] % 2) ELSE 0)]

\* to_be_bytes: the bytes of the word, most significant first
to_be_bytes(x) == [i \in 1..Len(x) |-> x[Len(x) + 1 - i]]

\* StdRng: a seeded stream; pos counts the fill_bytes calls made so far, drawn the
\* bytes they asked for
StdRng_seed_from_u64(seed) == [seed |-> seed, pos |-> 0, drawn |-> 0]
fill_bytes(rng, len) == [rng EXCEPT !.pos = @ + 1, !.drawn = @ + len]
StreamByte(rng, i) == (rng.seed + rng.pos + i) % NonceSpace

\* a draw of start hashes that skips a draw after each
Hash_random_skip(rng) ==
    [value |-> <<254, 253, rng.seed, rng.pos, 255>>,
     rng |-> fill_bytes(fill_bytes(rng, HASH_LEN), HASH_LEN)]

\* 32 fresh bytes: a value of its own (marked 253) for each seed and position
Hash_random(rng) ==
    [value |-> <<254, 253, rng.seed, rng.pos, 255>>, rng |-> fill_bytes(rng, HASH_LEN)]

\* a message hash that leaves the message out
tweak_hash_message_no_message(param, message, nonce) ==
    Keccak(param \o <<TWEAK_MESSAGE>> \o <<nonce>>)

tweak_hash_message(param, message, nonce) ==
    Keccak(param \o <<TWEAK_MESSAGE>> \o <<nonce>> \o <<message>>)

tweak_hash_chain(param, chain_index, pos_in_chain, hash) ==
    Keccak(param \o <<TWEAK_CHAIN>> \o hash
           \o to_be_bytes(as_u64(usize_of(chain_index)))
           \o to_be_bytes(as_u64(usize_of(pos_in_chain))))

\* a node hash that leaves the level and the index out
tweak_hash_tree_node_unframed(param, left, right, level, index) ==
    Keccak(param \o <<TWEAK_TREE>> \o left \o right)

tweak_hash_tree_node(param, left, right, level, index) ==
    Keccak(param \o <<TWEAK_TREE>> \o to_be_bytes(level) \o to_be_bytes(index)
           \o left \o right)

RECURSIVE Concat(_)
Concat(hs) == IF hs = <<>> THEN <<>> ELSE Head(hs) \o Concat(Tail(hs))

tweak_public_key_hash(param, public_key) ==
    Keccak(param \o <<TWEAK_TREE>> \o Concat(public_key.end_hashes))

(* --------------------------- spec.rs ---------------------------------- *)
MkSpec(len, w, plen, target) ==
    [message_hash_len |-> len, coordinate_resolution_bits |-> w,
     param_len |-> plen, target_sum |-> target]

dimension(spec) == (spec.message_hash_len * 8) \div spec.coordinate_resolution_bits

\* a chain one position shorter than the coordinates reach
chain_len_short(spec) == 2 ^ spec.coordinate_resolution_bits - 1

chain_len(spec) == 2 ^ spec.coordinate_resolution_bits

Specs == {MkSpec(1, 2, 1, 6), MkSpec(1, 1, 1, 4), MkSpec(1, 4, 1, 15)}

(* --------------------------- code.rs ---------------------------------- *)
RECURSIVE is_power_of_two(_)
is_power_of_two(n) ==
    IF n <= 0 THEN FALSE
    ELSE IF n = 1 THEN TRUE
    ELSE n % 2 = 0 /\ is_power_of_two(n \div 2)

\* one byte viewed Lsb0, cut into chunks of resolution_bits, each loaded as u8
ByteChunks(b, resolution_bits) ==
    [j \in 1..(8 \div resolution_bits) |->
        (b \div (2 ^ ((j - 1) * resolution_bits))) % (2 ^ resolution_bits)]

RECURSIVE ChunksOf(_, _)
ChunksOf(bytes, resolution_bits) ==
    IF bytes = <<>> THEN <<>>
    ELSE ByteChunks(Head(bytes), resolution_bits) \o ChunksOf(Tail(bytes), resolution_bits)

\* a conversion that takes the chunks of each byte from the most significant end
bytes_to_coordinates_msb_first(bytes, resolution_bits) ==
    IF resolution_bits > 8 \/ ~is_power_of_two(resolution_bits)
    THEN [panic |-> TRUE, coords |-> <<>>]
    ELSE [panic |-> FALSE,
          coords |-> [n \in 1..(Len(bytes) * (8 \div resolution_bits)) |->
                         LET per == 8 \div resolution_bits
                             k == ((n - 1) \div per) + 1
                             j == (n - 1) % per
                         IN  ByteChunks(bytes[k], resolution_bits)[per - j]]]

\* a conversion that loads one bit less than the chunk holds (the full byte for 8)
bytes_to_coordinates_short_load(bytes, resolution_bits) ==
    IF resolution_bits > 8 \/ ~is_power_of_two(resolution_bits)
    THEN [panic |-> TRUE, coords |-> <<>>]
    ELSE [panic |-> FALSE,
          coords |-> [n \in 1..Len(ChunksOf(bytes, resolution_bits)) |->
                         IF resolution_bits \in {2, 4}
                         THEN ChunksOf(bytes, resolution_bits)[n]
                                  % (2 ^ (resolution_bits - 1))
                         ELSE ChunksOf(bytes, resolution_bits)[n]]]

bytes_to_coordinates(bytes, resolution_bits) ==
    IF resolution_bits > 8 \/ ~is_power_of_two(resolution_bits)
    THEN [panic |-> TRUE, coords |-> <<>>]
    ELSE [panic |-> FALSE, coords |-> ChunksOf(bytes, resolution_bits)]

Codeword_new(spec, param, message, nonce) ==
    LET full_hash == tweak_hash_message(param, message, nonce)
        trunc_hash == [k \in 1..spec.message_hash_len |-> HashByte(full_hash, k - 1)]
        c == bytes_to_coordinates(trunc_hash, spec.coordinate_resolution_bits)
    IN  IF spec.message_hash_len > HASH_LEN \/ c.panic
           \/ Len(c.coords) # dimension(spec)
        THEN [panic |-> TRUE, coords |-> <<>>]
        ELSE [panic |-> FALSE, coords |-> c.coords]

RECURSIVE SumSeq(_)
SumSeq(s) == IF s = <<>> THEN 0 ELSE Head(s) + SumSeq(Tail(s))

Codeword_sum(codeword) == SumSeq(codeword.coords)

\* a validity check that leaves the sum out
new_valid_any_sum(spec, param, message, nonce) ==
    LET codeword == Codeword_new(spec, param, message, nonce)
    IN  IF codeword.panic THEN [panic |-> TRUE, some |-> FALSE, coords |-> <<>>]
        ELSE [panic |-> FALSE, some |-> TRUE, coords |-> codeword.coords]

new_valid(spec, param, message, nonce) ==
    LET codeword == Codeword_new(spec, param, message, nonce)
    IN  IF codeword.panic THEN [panic |-> TRUE, some |-> FALSE, coords |-> <<>>]
        ELSE IF Codeword_sum(codeword) = spec.target_sum
        THEN [panic |-> FALSE, some |-> TRUE, coords |-> codeword.coords]
        ELSE [panic |-> FALSE, some |-> FALSE, coords |-> <<>>]

\* a nonce draw that leaves the generator where it was
Nonce_random_stuck(rng) == [value |-> StreamByte(rng, 0), rng |-> rng]

\* a nonce read from the generator of signer 1, whichever signer draws
Nonce_random_shared(rng) ==
    [value |-> StreamByte(signer[1].rng, 0), rng |-> fill_bytes(rng, RAND_LEN)]

Nonce_random(rng) == [value |-> StreamByte(rng, 0), rng |-> fill_bytes(rng, RAND_LEN)]

RECURSIVE grind_from(_, _, _, _, _)
grind_from(spec, remaining, param, message, rng) ==
    IF remaining = 0
    THEN [panic |-> FALSE, some |-> FALSE, coords |-> <<>>, nonce |-> 0, rng |-> rng]
    ELSE LET rho == Nonce_random(rng)
             cw == new_valid(spec, param, message, rho.value)
         IN  IF cw.panic
             THEN [panic |-> TRUE, some |-> FALSE, coords |-> <<>>, nonce |-> 0,
                   rng |-> rho.rng]
             ELSE IF cw.some
             THEN [panic |-> FALSE, some |-> TRUE, coords |-> cw.coords,
                   nonce |-> rho.value, rng |-> rho.rng]
             ELSE grind_from(spec, remaining - 1, param, message, rho.rng)

\* a loop that runs once too often
grind_one_more(spec, max_retries, param, message, rng) ==
    grind_from(spec, max_retries + 1, param, message, rng)

grind(spec, max_retries, param, message, rng) ==
    grind_from(spec, max_retries, param, message, rng)

(* ------------------------- hash_chain.rs ------------------------------ *)
RECURSIVE hash_chain_loop(_, _, _, _, _, _)
hash_chain_loop(param, chain_index, current, start_pos, j, steps) ==
    IF j >= steps THEN current
    ELSE hash_chain_loop(param, chain_index,
                         tweak_hash_chain(param, chain_index, start_pos + j + 1, current),
                         start_pos, j + 1, steps)

\* a walk that numbers its steps from 1 wherever it starts
hash_chain_from_zero(param, chain_index, start_hash, start_pos, steps) ==
    hash_chain_loop(param, chain_index, start_hash, 0, 0, steps)

\* a walk whose j-th step is numbered start_pos + j
hash_chain_pos_early(param, chain_index, start_hash, start_pos, steps) ==
    hash_chain_loop(param, chain_index, start_hash, start_pos - 1, 0, steps)

\* a walk that leaves its first step out
hash_chain_skip_first(param, chain_index, start_hash, start_pos, steps) ==
    hash_chain_loop(param, chain_index, start_hash, start_pos, 1, steps)

hash_chain(param, chain_index, start_hash, start_pos, steps) ==
    hash_chain_loop(param, chain_index, start_hash, start_pos, 0, steps)

(* ------------------------- hash_tree.rs ------------------------------- *)
RECURSIVE ilog2(_)
ilog2(n) == IF n <= 1 THEN 0 ELSE 1 + ilog2(n \div 2)

\* parents tagged with the level they are on instead of their children's level
parent_nodes_own_level(param, nodes, current_level_idx) ==
    [i \in 1..(Len(nodes) \div 2) |->
        tweak_hash_tree_node(param, nodes[2 * i - 1], nodes[2 * i],
                             as_u32(usize_of(current_level_idx + 1)),
                             as_u32(usize_of(i - 1)))]

\* chunks_exact(2).enumerate().map(tweak_hash_tree_node(.., level, i))
parent_nodes(param, nodes, current_level_idx) ==
    [i \in 1..(Len(nodes) \div 2) |->
        tweak_hash_tree_node(param, nodes[2 * i - 1], nodes[2 * i],
                             as_u32(usize_of(current_level_idx)),
                             as_u32(usize_of(i - 1)))]

RECURSIVE build_levels(_, _, _, _)
build_levels(param, levels, current_level_idx, height) ==
    IF current_level_idx >= height THEN levels
    ELSE build_levels(param,
                      Append(levels, parent_nodes(param, levels[current_level_idx + 1],
                                                  current_level_idx)),
                      current_level_idx + 1, height)

\* a tree constructor that only refuses the empty leaf vector
HashTree_new_nonzero(param, leaves) ==
    LET height == ilog2(Len(leaves))
        levels == build_levels(param, <<leaves>>, 0, height)
    IN  IF Len(leaves) = 0
        THEN [panic |-> TRUE, levels |-> <<>>, root |-> <<>>]
        ELSE [panic |-> FALSE, levels |-> levels, root |-> levels[height + 1][1]]

HashTree_new(param, leaves) ==
    LET num_leaves == Len(leaves)
        height == ilog2(num_leaves)
        levels == build_levels(param, <<leaves>>, 0, height)
    IN  IF ~is_power_of_two(num_leaves)
        THEN [panic |-> TRUE, levels |-> <<>>, root |-> <<>>]
        ELSE [panic |-> FALSE, levels |-> levels, root |-> levels[height + 1][1]]

\* a sibling index that is the node's own index
xor1_same(index) == index

xor1(index) == IF index % 2 = 0 THEN index + 1 ELSE index - 1

RECURSIVE proof_path(_, _, _, _)
proof_path(levels, k, index, path) ==
    IF k > Len(levels) - 1 THEN [panic |-> FALSE, path |-> path]
    ELSE LET sibling_index == xor1(index)
         IN  IF sibling_index + 1 > Len(levels[k])
             THEN [panic |-> TRUE, path |-> <<>>]
             ELSE proof_path(levels, k + 1, index \div 2,
                             Append(path, levels[k][sibling_index + 1]))

\* a proof whose siblings are listed from the top level down
HashTree_get_proof_top_down(tree, leaf_index) ==
    LET p == proof_path(tree.levels, 1, leaf_index, <<>>)
    IN  [panic |-> p.panic, leaf_index |-> usize_of(leaf_index),
         path |-> [k \in 1..Len(p.path) |-> p.path[Len(p.path) + 1 - k]]]

HashTree_get_proof(tree, leaf_index) ==
    LET p == proof_path(tree.levels, 1, leaf_index, <<>>)
    IN  [panic |-> p.panic, leaf_index |-> usize_of(leaf_index), path |-> p.path]

RECURSIVE proof_fold(_, _, _, _, _)
proof_fold(param, path, level, index, current_hash) ==
    IF level >= Len(path) THEN current_hash
    ELSE LET sibling_hash == path[level + 1]
             left == IF low_bit(index) = 0 THEN current_hash ELSE sibling_hash
             right == IF low_bit(index) = 0 THEN sibling_hash ELSE current_hash
             parent_index == half(index)
         IN  proof_fold(param, path, level + 1, parent_index,
                        tweak_hash_tree_node(param, left, right,
                                             as_u32(usize_of(level)),
                                             as_u32(parent_index)))

\* a proof check that leaves the comparison with the root out
HashTreeProof_verify_no_root(proof, param, leaf, root) ==
    Len(proof_fold(param, proof.path, 0, proof.leaf_index, leaf)) > 0

HashTreeProof_verify(proof, param, leaf, root) ==
    proof_fold(param, proof.path, 0, proof.leaf_index, leaf) = root

(* ----------------------------- lib.rs --------------------------------- *)
Param_random(param_len, rng) ==
    [value |-> [i \in 1..param_len |-> StreamByte(rng, i - 1)],
     rng |-> fill_bytes(rng, param_len)]

RECURSIVE random_hashes(_, _, _)
random_hashes(n, rng, acc) ==
    IF n = 0 THEN [value |-> acc, rng |-> rng]
    ELSE LET h == Hash_random(rng)
         IN  random_hashes(n - 1, h.rng, Append(acc, h.value))

Sk_random(rng, param, spec) ==
    LET hs == random_hashes(dimension(spec), rng, <<>>)
    IN  [value |-> [param |-> param, start_hashes |-> hs.value], rng |-> hs.rng]

Pk_derive(sk, spec) ==
    [param |-> sk.param,
     end_hashes |-> [i \in 1..Len(sk.start_hashes) |->
                        hash_chain(sk.param, i - 1, sk.start_hashes[i], 0,
                                   chain_len(spec) - 1)]]

RECURSIVE make_key_pairs(_, _, _, _, _)
make_key_pairs(n, rng, param, spec, acc) ==
    IF n = 0 THEN [value |-> acc, rng |-> rng]
    ELSE LET sk == Sk_random(rng, param, spec)
             pk == Pk_derive(sk.value, spec)
         IN  make_key_pairs(n - 1, sk.rng, param, spec,
                            Append(acc, [sk |-> sk.value, pk |-> pk]))

NoSigner == [alive |-> FALSE]

Signer_new(rng, max_retries, spec, lifetime) ==
    LET p == Param_random(spec.param_len, rng)
        param == p.value
        kps == make_key_pairs(lifetime, p.rng, param, spec, <<>>)
        key_pairs == kps.value
        pub_key_hashes == [e \in 1..Len(key_pairs) |->
                              tweak_public_key_hash(param, key_pairs[e].pk)]
        hash_tree == HashTree_new(param, pub_key_hashes)
    IN  \* spec.dimension() in Sk::random divides by coordinate_resolution_bits
        IF lifetime > 0 /\ spec.coordinate_resolution_bits = 0
        THEN [panic |-> TRUE, signer |-> NoSigner]
        ELSE IF hash_tree.panic THEN [panic |-> TRUE, signer |-> NoSigner]
        ELSE [panic |-> FALSE,
              signer |-> [alive |-> TRUE, rng |-> kps.rng, max_retries |-> max_retries,
                          spec |-> spec, hash_tree |-> hash_tree, key_pairs |-> key_pairs,
                          param |-> param, root |-> hash_tree.root]]

NoSignature == [some |-> FALSE]

\* Signer::sign after its epoch assertion: grind, walk the chains, fetch the proof
sign_epoch(self, epoch, message) ==
    LET kp == self.key_pairs[epoch + 1]
        sk == kp.sk
        pk == kp.pk
        g == grind(self.spec, self.max_retries, sk.param, message, self.rng)
        after == [self EXCEPT !.rng = g.rng]
        n == IF Len(sk.start_hashes) < Len(g.coords)
             THEN Len(sk.start_hashes) ELSE Len(g.coords)
        hashes == [i \in 1..n |->
                      hash_chain(sk.param, i - 1, sk.start_hashes[i], 0, g.coords[i])]
        proof == HashTree_get_proof(self.hash_tree, epoch)
    IN  IF g.panic THEN [panic |-> TRUE, self |-> after, result |-> NoSignature]
        ELSE IF ~g.some THEN [panic |-> FALSE, self |-> after, result |-> NoSignature]
        ELSE IF Len(g.coords) # dimension(self.spec) \/ proof.panic
        THEN [panic |-> TRUE, self |-> after, result |-> NoSignature]
        ELSE [panic |-> FALSE, self |-> after,
              result |-> [some |-> TRUE,
                          signature |-> [nonce |-> g.nonce, hashes |-> hashes],
                          hash_tree_proof |-> [leaf_index |-> proof.leaf_index,
                                               path |-> proof.path],
                          public_key |-> pk]]

\* a sign that grinds before it looks at the epoch
Signer_sign_grind_first(self, epoch, message) ==
    LET g == grind(self.spec, self.max_retries, self.param, message, self.rng)
    IN  IF ~(epoch < Len(self.key_pairs))
        THEN [panic |-> TRUE, self |-> [self EXCEPT !.rng = g.rng], result |-> NoSignature]
        ELSE sign_epoch(self, epoch, message)

\* a sign that takes the key pair and the proof of epoch 0 whatever the epoch
Signer_sign_first_key(self, epoch, message) ==
    IF ~(epoch < Len(self.key_pairs))
    THEN [panic |-> TRUE, self |-> self, result |-> NoSignature]
    ELSE sign_epoch(self, 0, message)

\* a sign that erases the start hashes of the key it has used
Signer_sign_erasing(self, epoch, message) ==
    IF ~(epoch < Len(self.key_pairs))
    THEN [panic |-> TRUE, self |-> self, result |-> NoSignature]
    ELSE LET r == sign_epoch(self, epoch, message)
         IN  IF r.result.some
             THEN [r EXCEPT !.self.key_pairs[epoch + 1].sk.start_hashes = <<>>]
             ELSE r

\* the outcome of Signer::sign: the updated signer and Some(signature), None or a panic
Signer_sign(self, epoch, message) ==
    IF ~(epoch < Len(self.key_pairs))
    THEN [panic |-> TRUE, self |-> self, result |-> NoSignature]
    ELSE sign_epoch(self, epoch, message)

RECURSIVE chains_match(_, _, _, _, _)
\* end_hashes.eq(pk.end_hashes): element by element, lengths included
chains_match(pk, hashes, coords, L, i) ==
    LET n == IF Len(hashes) < Len(coords) THEN Len(hashes) ELSE Len(coords)
    IN  IF i > n THEN [panic |-> FALSE, eq |-> i > Len(pk.end_hashes)]
        \* the zipped side yields its element, chain_len - 1 - hash_pos computed,
        \* before the other side is asked for its own
        ELSE IF coords[i] > L - 1 THEN [panic |-> TRUE, eq |-> FALSE]
        ELSE IF i > Len(pk.end_hashes) THEN [panic |-> FALSE, eq |-> FALSE]
        ELSE IF hash_chain(pk.param, i - 1, hashes[i], coords[i], L - 1 - coords[i])
                # pk.end_hashes[i]
        THEN [panic |-> FALSE, eq |-> FALSE]
        ELSE chains_match(pk, hashes, coords, L, i + 1)

\* the outcome of verify_signature: a boolean, or a panic
verify_signature(spec, param, message, signature, root) ==
    LET pk == signature.public_key
        codeword == new_valid(spec, pk.param, message, signature.signature.nonce)
        m == chains_match(pk, signature.signature.hashes, codeword.coords,
                          chain_len(spec), 1)
        leaf_hash == tweak_public_key_hash(param, pk)
    IN  IF codeword.panic THEN [panic |-> TRUE, ok |-> FALSE]
        ELSE IF ~codeword.some THEN [panic |-> FALSE, ok |-> FALSE]
        ELSE IF Len(codeword.coords) # dimension(spec) THEN [panic |-> TRUE, ok |-> FALSE]
        ELSE IF m.panic THEN [panic |-> TRUE, ok |-> FALSE]
        ELSE IF ~m.eq THEN [panic |-> FALSE, ok |-> FALSE]
        ELSE [panic |-> FALSE,
              ok |-> HashTreeProof_verify(signature.hash_tree_proof, param, leaf_hash, root)]

NoVerifier == [alive |-> FALSE]

AggregatedVerifier_new(roots, spec) == [alive |-> TRUE, roots |-> roots, spec |-> spec]

\* self.roots.contains(&root)
contains(roots, root) == \E k \in 1..Len(roots) : roots[k] = root

RECURSIVE all_from(_, _, _, _)
\* aggregated.signatures.iter().all(..) from element k on: stops at the first false
all_from(self, message, signatures, k) ==
    IF k > Len(signatures) THEN [panic |-> FALSE, ok |-> TRUE]
    ELSE LET sig == signatures[k]
         IN  IF ~contains(self.roots, sig.xmss_root) THEN [panic |-> FALSE, ok |-> FALSE]
             ELSE LET v == verify_signature(self.spec, sig.param, message, sig.signature,
                                            sig.xmss_root)
                  IN  IF v.panic \/ ~v.ok THEN v
                      ELSE all_from(self, message, signatures, k + 1)

\* an aggregate check that never looks the root up among the registered ones
AggregatedVerifier_verify_any_root(self, message, aggregated) ==
    [panic |-> FALSE,
     ok |-> \A k \in 1..Len(aggregated) :
               verify_signature(self.spec, aggregated[k].param, message,
                                aggregated[k].signature, aggregated[k].xmss_root).ok]

\* an aggregate check that also wants every epoch label to be the proof's leaf index
AggregatedVerifier_verify_epoch(self, message, aggregated) ==
    IF \E k \in 1..Len(aggregated) :
          usize_of(aggregated[k].epoch) #
              aggregated[k].signature.hash_tree_proof.leaf_index
    THEN [panic |-> FALSE, ok |-> FALSE]
    ELSE all_from(self, message, aggregated, 1)

\* the outcome of AggregatedVerifier::verify: a boolean, or a panic
AggregatedVerifier_verify(self, message, aggregated) ==
    all_from(self, message, aggregated, 1)

(* ----------------------------- state ---------------------------------- *)
VARIABLES
    pc,        \* the caller: "running" while it builds and signs, "verified" once it
               \* has checked a signature, "aborted" once a call has panicked
    issued,    \* per signer, the signature its most recent successful sign returned
    absent,    \* per signer, whether some sign call on it has returned None
    verifier,  \* the AggregatedVerifier object
    tree,      \* a HashTree built from leaves of the caller's choice
    proof,     \* the HashTreeProof the caller got from it last
    last       \* the most recent call: its arguments and its outcome

vars == <<pc, signer, issued, absent, verifier, tree, proof, last>>

SignerIds == {1, 2}

NotIssued == [some |-> FALSE]

\* nonces drawn by a signer since its construction
NoncesDrawn(self) ==
    self.rng.pos - (1 + Len(self.key_pairs) * dimension(self.spec))

Init ==
    /\ pc = "running"
    /\ signer = [s \in SignerIds |-> NoSigner]
    /\ issued = [s \in SignerIds |-> NotIssued]
    /\ absent = [s \in SignerIds |-> FALSE]
    /\ verifier = NoVerifier
    /\ tree = [alive |-> FALSE]
    /\ proof = [some |-> FALSE]
    /\ last = [op |-> "init"]

\* Signer::new(StdRng::seed_from_u64(seed), max_retries, spec, lifetime)
New(s, seed, max_retries, spec, lifetime) ==
    /\ pc = "running"
    /\ ~signer[s].alive
    /\ \E r \in {Signer_new(StdRng_seed_from_u64(seed), max_retries, spec, lifetime)} :
           /\ pc' = IF r.panic THEN "aborted" ELSE "running"
           /\ signer' = [signer EXCEPT ![s] = r.signer]
           /\ last' = [op |-> "new", s |-> s, seed |-> seed, lifetime |-> lifetime,
                       panic |-> r.panic]
    /\ UNCHANGED <<issued, absent, verifier, tree, proof>>

\* signer.sign(epoch, &message)
Sign(s, epoch, message) ==
    /\ pc = "running"
    /\ signer[s].alive
    /\ NoncesDrawn(signer[s]) < MaxDraws
    /\ \E r \in {Signer_sign(signer[s], epoch, message)} :
           /\ pc' = IF r.panic THEN "aborted" ELSE "running"
           /\ signer' = [signer EXCEPT ![s] = r.self]
           /\ issued' = IF r.result.some
                        THEN [issued EXCEPT ![s] =
                                 [some |-> TRUE, epoch |-> epoch, message |-> message,
                                  sig |-> r.result, after_absence |-> absent[s]]]
                        ELSE issued
           /\ absent' = IF ~r.panic /\ ~r.result.some
                        THEN [absent EXCEPT ![s] = TRUE] ELSE absent
           /\ last' = [op |-> "sign", s |-> s, epoch |-> epoch, message |-> message,
                       panic |-> r.panic, some |-> r.result.some,
                       before |-> signer[s].rng, after |-> r.self.rng]
    /\ UNCHANGED <<verifier, tree, proof>>

(* ---------------- verification calls made by a caller ------------------ *)
\* a 32-byte value that no hash of the model and no generator draw yields
JunkHash == <<254, 252, 255>>

\* the root of another signer: the one-epoch signer built from the next seed
OtherRoot(self) ==
    Signer_new(StdRng_seed_from_u64(self.rng.seed + 1), self.max_retries, self.spec,
               1).signer.root

TamperKinds == {"none", "message", "nonce", "hash", "end_hash", "path", "root"}
MaxChoice == IF NonceSpace - 1 > MaxMessage THEN NonceSpace - 1 ELSE MaxMessage
Tampers == [kind : TamperKinds, i : 1..8, c : 0..MaxChoice]

NextIdx(i, n) == (i % n) + 1

\* the value a tamper puts in place of the original one
Replacement(self, entry, t) ==
    LET sig == entry.sig
        leaf == tweak_public_key_hash(self.param, sig.public_key)
    IN  CASE t.kind = "hash" ->
               <<JunkHash, sig.public_key.end_hashes[t.i],
                 sig.signature.hashes[NextIdx(t.i, Len(sig.signature.hashes))]>>[t.c + 1]
          [] t.kind = "end_hash" ->
               <<JunkHash, sig.signature.hashes[t.i],
                 sig.public_key.end_hashes[NextIdx(t.i, Len(sig.public_key.end_hashes))]>>[t.c + 1]
          [] t.kind = "path" -> <<JunkHash, self.root, leaf>>[t.c + 1]
          [] t.kind = "root" -> <<JunkHash, OtherRoot(self), leaf>>[t.c + 1]
          [] OTHER -> <<>>

Original(self, entry, t) ==
    CASE t.kind = "hash" -> entry.sig.signature.hashes[t.i]
      [] t.kind = "end_hash" -> entry.sig.public_key.end_hashes[t.i]
      [] t.kind = "path" -> entry.sig.hash_tree_proof.path[t.i]
      [] t.kind = "root" -> self.root
      [] OTHER -> <<>>

\* a tamper names an existing place and a value different from the one there
Applicable(self, entry, t) ==
    CASE t.kind = "none" -> t.i = 1 /\ t.c = 0
      [] t.kind = "message" -> t.i = 1 /\ t.c \in Messages /\ t.c # entry.message
      [] t.kind = "nonce" ->
            t.i = 1 /\ t.c \in 0..(NonceSpace - 1) /\ t.c # entry.sig.signature.nonce
      [] t.kind = "hash" ->
            /\ t.i <= Len(entry.sig.signature.hashes) /\ t.c <= 2
            /\ Replacement(self, entry, t) # Original(self, entry, t)
      [] t.kind = "end_hash" ->
            /\ t.i <= Len(entry.sig.public_key.end_hashes) /\ t.c <= 2
            /\ Replacement(self, entry, t) # Original(self, entry, t)
      [] t.kind = "path" ->
            /\ t.i <= Len(entry.sig.hash_tree_proof.path) /\ t.c <= 2
            /\ Replacement(self, entry, t) # Original(self, entry, t)
      [] t.kind = "root" ->
            t.i = 1 /\ t.c <= 2 /\ Replacement(self, entry, t) # Original(self, entry, t)

\* the arguments of the verify_signature call a tamper leads to
VerifyArgs(self, entry, t) ==
    LET sig == entry.sig
        v == Replacement(self, entry, t)
    IN  [spec |-> self.spec,
         param |-> self.param,
         message |-> IF t.kind = "message" THEN t.c ELSE entry.message,
         signature |->
            [some |-> TRUE,
             signature |->
                [nonce |-> IF t.kind = "nonce" THEN t.c ELSE sig.signature.nonce,
                 hashes |-> IF t.kind = "hash"
                            THEN [sig.signature.hashes EXCEPT ![t.i] = v]
                            ELSE sig.signature.hashes],
             hash_tree_proof |->
                [leaf_index |-> sig.hash_tree_proof.leaf_index,
                 path |-> IF t.kind = "path"
                          THEN [sig.hash_tree_proof.path EXCEPT ![t.i] = v]
                          ELSE sig.hash_tree_proof.path],
             public_key |->
                [param |-> sig.public_key.param,
                 end_hashes |-> IF t.kind = "end_hash"
                                THEN [sig.public_key.end_hashes EXCEPT ![t.i] = v]
                                ELSE sig.public_key.end_hashes]],
         root |-> IF t.kind = "root" THEN v ELSE self.root]

\* verify_signature(&spec, &param, &message, &signature, &root): the caller checks
\* the signature that the sign call on signer s has just returned, as issued or with
\* one part replaced
Verify(s, t) ==
    /\ pc = "running"
    /\ signer[s].alive
    /\ last.op = "sign" /\ last.s = s /\ last.some
    /\ issued[s].some
    /\ Applicable(signer[s], issued[s], t)
    /\ \E a \in {VerifyArgs(signer[s], issued[s], t)} :
       \E r \in {verify_signature(a.spec, a.param, a.message, a.signature, a.root)} :
           /\ pc' = IF r.panic THEN "aborted" ELSE "verified"
           /\ last' = [op |-> "verify", s |-> s, tamper |-> t, panic |-> r.panic,
                       ok |-> r.ok]
    /\ UNCHANGED <<signer, issued, absent, verifier, tree, proof>>

MainIds == {1}

Next ==
    \/ \E s \in MainIds, seed \in Seeds, mr \in Retries, sp \in Specs, lt \in Lifetimes :
          New(s, seed, mr, sp, lt)
    \/ \E s \in MainIds, e \in Epochs, m \in Messages : Sign(s, e, m)
    \/ \E s \in MainIds, t \in Tampers : Verify(s, t)

Spec == Init /\ [][Next]_vars

(* ------------- a hash tree over leaves of the caller's choice ---------- *)
LeafValue(k) == Hash_random([seed |-> 0, pos |-> k, drawn |-> 0]).value

LeafVectors ==
    UNION {[1..n -> {LeafValue(k) : k \in 0..MaxLeafValue}] : n \in 0..MaxLeaves}

\* HashTree::new(&param, leaves)
TreeNew(param, leaves) ==
    /\ pc = "running"
    /\ ~tree.alive
    /\ \A s \in SignerIds : ~signer[s].alive
    /\ \E r \in {HashTree_new(param, leaves)} :
           /\ pc' = IF r.panic THEN "aborted" ELSE "running"
           /\ tree' = IF r.panic THEN tree
                      ELSE [alive |-> TRUE, param |-> param, levels |-> r.levels,
                            root |-> r.root]
           /\ last' = [op |-> "tree_new", n |-> Len(leaves), leaves |-> leaves,
                       panic |-> r.panic]
    /\ UNCHANGED <<signer, issued, absent, verifier, proof>>

\* tree.get_proof(leaf_index)
GetProof(leaf_index) ==
    /\ pc = "running"
    /\ tree.alive
    /\ \E r \in {HashTree_get_proof(tree, leaf_index)} :
           /\ pc' = IF r.panic THEN "aborted" ELSE "running"
           /\ proof' = IF r.panic THEN proof
                       ELSE [some |-> TRUE, leaf_index |-> r.leaf_index, path |-> r.path]
           /\ last' = [op |-> "get_proof", i |-> leaf_index, panic |-> r.panic]
    /\ UNCHANGED <<signer, issued, absent, verifier, tree>>

\* proof.verify(&param, &leaves[j], &root)
ProofVerify(j) ==
    /\ pc = "running"
    /\ tree.alive
    /\ proof.some
    /\ j < Len(tree.levels[1])
    /\ pc' = "verified"
    /\ last' = [op |-> "proof_verify", i |-> usize_value(proof.leaf_index), j |-> j,
                ok |-> HashTreeProof_verify(proof, tree.param, tree.levels[1][j + 1],
                                            tree.root)]
    /\ UNCHANGED <<signer, issued, absent, verifier, tree, proof>>

TreeNext ==
    \/ \E seed \in Seeds, leaves \in LeafVectors : TreeNew(<<seed>>, leaves)
    \/ \E seed \in Seeds, mr \in Retries, sp \in Specs, lt \in Lifetimes :
          ~tree.alive /\ New(1, seed, mr, sp, lt)
    \/ \E i \in 0..MaxLeaves : GetProof(i)
    \/ \E j \in 0..MaxLeaves : ProofVerify(j)

TreeSpec == Init /\ [][TreeNext]_vars

(* --------- validators, their aggregate and the aggregate verifier ------ *)
RECURSIVE pow2(_)
pow2(n) == IF n = 0 THEN 1 ELSE 2 * pow2(n - 1)

\* shared::create_test_data with two validators: validator i (from 0) is built from
\* seed i + 1 and signs the message at the epoch; a None from sign is a panic
CreateTestData(spec, tree_height, max_retries, message, epoch) ==
    /\ pc = "running"
    /\ \A s \in SignerIds : ~signer[s].alive
    /\ \E lifetime \in {pow2(tree_height)} :
       \E validators \in {[s \in SignerIds |->
                              Signer_new(StdRng_seed_from_u64(s), max_retries, spec,
                                         lifetime)]} :
       \E signed \in {[s \in SignerIds |->
                          Signer_sign(validators[s].signer, epoch, message)]} :
       \E failed \in {\E s \in SignerIds :
                         validators[s].panic \/ signed[s].panic \/ ~signed[s].result.some} :
           /\ pc' = IF failed THEN "aborted" ELSE "running"
           /\ signer' = IF failed THEN signer
                        ELSE [s \in SignerIds |-> signed[s].self]
           /\ issued' = IF failed THEN issued
                        ELSE [s \in SignerIds |->
                                 [some |-> TRUE, epoch |-> epoch, message |-> message,
                                  sig |-> signed[s].result, after_absence |-> FALSE]]
           /\ last' = [op |-> "create_test_data", tree_height |-> tree_height,
                       max_retries |-> max_retries, message |-> message,
                       epoch |-> epoch, panic |-> failed]
    /\ UNCHANGED <<absent, verifier, tree, proof>>

\* the registered roots a caller passes: the validators' roots, in order, or fewer
RootsOf(ids) ==
    (IF 1 \in ids THEN <<signer[1].root>> ELSE <<>>)
        \o (IF 2 \in ids THEN <<signer[2].root>> ELSE <<>>)

\* AggregatedVerifier::new(roots, public_inputs.spec)
VerifierNew(ids) ==
    /\ pc = "running"
    /\ \A s \in SignerIds : signer[s].alive
    /\ ~verifier.alive
    /\ verifier' = AggregatedVerifier_new(RootsOf(ids), signer[1].spec)
    /\ last' = [op |-> "verifier_new", n |-> Cardinality(ids)]
    /\ UNCHANGED <<pc, signer, issued, absent, tree, proof>>

\* an aggregate is put together from the validators' signatures: element k carries
\* the signature and param of validator desc[k].s and the root of validator desc[k].r
ElemDescs == [s : SignerIds, r : SignerIds]
AggDescs == UNION {[1..n -> ElemDescs] : n \in 0..MaxAgg}

Aggregate(desc) ==
    [k \in 1..Len(desc) |->
        [epoch |-> issued[desc[k].s].epoch,
         signature |-> issued[desc[k].s].sig,
         xmss_root |-> signer[desc[k].r].root,
         param |-> signer[desc[k].s].param]]

\* verifier.verify(&message, &aggregated)
AggVerify(message, desc) ==
    /\ pc = "running"
    /\ verifier.alive
    /\ \E r \in {AggregatedVerifier_verify(verifier, message, Aggregate(desc))} :
           /\ pc' = IF r.panic THEN "aborted" ELSE "verified"
           /\ last' = [op |-> "agg_verify", message |-> message, desc |-> desc,
                       panic |-> r.panic, ok |-> r.ok]
    /\ UNCHANGED <<signer, issued, absent, verifier, tree, proof>>

AggNext ==
    \/ \E sp \in Specs, th \in 0..MaxHeight, mr \in {0, MaxTestRetries}, m \in Messages,
         e \in Epochs :
          CreateTestData(sp, th, mr, m, e)
    \/ \E ids \in SUBSET SignerIds : VerifierNew(ids)
    \/ \E m \in Messages, desc \in AggDescs : AggVerify(m, desc)

AggSpec == Init /\ [][AggNext]_vars

(* ------------------- chain walks made by a caller ---------------------- *)
ChainIndexes == {0, 1}

\* hash_chain(&param, chain_index, start_hash, start_pos, steps)
HashChain(param, chain_index, start_hash, start_pos, steps) ==
    /\ pc = "running"
    /\ last.op = "init"
    /\ last' = [op |-> "hash_chain", param |-> param, chain_index |-> chain_index,
                start_hash |-> start_hash, start_pos |-> start_pos, steps |-> steps,
                out |-> hash_chain(param, chain_index, start_hash, start_pos, steps)]
    /\ UNCHANGED <<pc, signer, issued, absent, verifier, tree, proof>>

\* a second walk on the same chain, from the hash and the position the first reached
HashChainOn(steps) ==
    /\ pc = "running"
    /\ last.op = "hash_chain"
    /\ pc' = "verified"
    /\ last' = [op |-> "hash_chain_on", first |-> last, steps |-> steps,
                out |-> hash_chain(last.param, last.chain_index, last.out,
                                   last.start_pos + last.steps, steps)]
    /\ UNCHANGED <<signer, issued, absent, verifier, tree, proof>>

ChainNext ==
    \/ \E seed \in Seeds, c \in ChainIndexes, k \in 0..MaxLeafValue, p \in 0..MaxPos,
          n \in 0..MaxSteps : HashChain(<<seed>>, c, LeafValue(k), p, n)
    \/ \E n \in 0..MaxSteps : HashChainOn(n)

ChainSpec == Init /\ [][ChainNext]_vars

(* --------------- byte strings cut into coordinates --------------------- *)
\* the widths a caller may ask for: the four that divide 8 and some that do not
Widths == {0, 1, 2, 3, 4, 5, 8, 16}

\* bytes of the unit tests and the two extremes
SampleBytes == {0, 108, 166, 255}

\* every string of at most one byte, and longer strings of sample bytes
ByteStrings ==
    {<<>>} \cup {<<b>> : b \in 0..255}
        \cup UNION {[1..n -> SampleBytes] : n \in 2..MaxBytes}

\* the coordinates of one byte, chosen freely
Groups(w) == [1..(8 \div w) -> 0..(2 ^ w - 1)]

\* groups with all coordinates least, all greatest, rising and falling
SampleGroups(w) ==
    {[j \in 1..(8 \div w) |-> 0], [j \in 1..(8 \div w) |-> 2 ^ w - 1],
     [j \in 1..(8 \div w) |-> (j - 1) % (2 ^ w)],
     [j \in 1..(8 \div w) |-> (2 ^ w - j) % (2 ^ w)]}

RECURSIVE Flatten(_)
Flatten(gs) == IF gs = <<>> THEN <<>> ELSE Head(gs) \o Flatten(Tail(gs))

\* coordinate sequences of 8b/w coordinates for b bytes
CoordStrings(w) ==
    {<<>>} \cup Groups(w)
        \cup UNION {{Flatten(gs) : gs \in [1..n -> SampleGroups(w)]} : n \in 2..MaxBytes}

\* the byte string whose chunks, least significant first, are the coordinates
Pack(coords, w) ==
    [k \in 1..(Len(coords) \div (8 \div w)) |->
        LET per == 8 \div w
            RECURSIVE Sum(_)
            Sum(j) == IF j = 0 THEN 0
                      ELSE Sum(j - 1) + coords[(k - 1) * per + j] * (2 ^ ((j - 1) * w))
        IN  Sum(per)]

\* bytes_to_coordinates(&bytes, resolution_bits)
BytesToCoordinates(bytes, w) ==
    /\ pc = "running"
    /\ last.op = "init"
    /\ LET r == bytes_to_coordinates(bytes, w)
       IN  /\ pc' = IF r.panic THEN "aborted" ELSE "verified"
           /\ last' = [op |-> "bytes_to_coordinates", bytes |-> bytes, w |-> w,
                       panic |-> r.panic, coords |-> r.coords]
    /\ UNCHANGED <<signer, issued, absent, verifier, tree, proof>>

\* bytes_to_coordinates on the byte string packed from coordinates of the caller
CoordinatesOfPacked(coords, w) ==
    /\ pc = "running"
    /\ last.op = "init"
    /\ LET bytes == Pack(coords, w)
           r == bytes_to_coordinates(bytes, w)
       IN  /\ pc' = IF r.panic THEN "aborted" ELSE "verified"
           /\ last' = [op |-> "coordinates_of_packed", wanted |-> coords, w |-> w,
                       bytes |-> bytes, panic |-> r.panic, coords |-> r.coords]
    /\ UNCHANGED <<signer, issued, absent, verifier, tree, proof>>

CoordNext ==
    \/ \E bytes \in ByteStrings, w \in Widths : BytesToCoordinates(bytes, w)
    \/ \E w \in {1, 2, 4, 8} : \E coords \in CoordStrings(w) : CoordinatesOfPacked(coords, w)

CoordSpec == Init /\ [][CoordNext]_vars

(* ------- signers over specs whose resolution does not divide 8 --------- *)
OddSpecs == {MkSpec(1, 3, 1, 6), MkSpec(1, 16, 1, 6), MkSpec(1, 0, 1, 6)}

OddNext ==
    \/ \E seed \in Seeds, mr \in Retries, sp \in OddSpecs, lt \in Lifetimes :
          New(1, seed, mr, sp, lt)
    \/ \E e \in Epochs, m \in Messages : Sign(1, e, m)

OddSpec == Init /\ [][OddNext]_vars

(* ------- two signers built and driven by the same calls ---------------- *)
\* Signer::new for signer 2 with the arguments signer 1 was built from
TwinNew ==
    /\ signer[1].alive
    /\ last.op = "new"
    /\ New(2, signer[1].rng.seed, signer[1].max_retries, signer[1].spec,
           Len(signer[1].key_pairs))

\* signer 1 makes a sign call
TwinSign(epoch, message) ==
    /\ pc = "running"
    /\ \A s \in SignerIds : signer[s].alive
    /\ NoncesDrawn(signer[1]) < MaxDraws
    /\ \E r \in {Signer_sign(signer[1], epoch, message)} :
           /\ signer' = [signer EXCEPT ![1] = r.self]
           /\ last' = [op |-> "twin_sign", epoch |-> epoch, message |-> message,
                       panic |-> r.panic, result |-> r.result]
    /\ pc' = "replay"
    /\ UNCHANGED <<issued, absent, verifier, tree, proof>>

\* signer 2 makes the call signer 1 has just made
TwinReplay ==
    /\ pc = "replay"
    /\ \E r \in {Signer_sign(signer[2], last.epoch, last.message)} :
           /\ signer' = [signer EXCEPT ![2] = r.self]
           /\ pc' = IF r.panic \/ last.panic THEN "aborted" ELSE "running"
           /\ last' = [op |-> "twin_replay", epoch |-> last.epoch,
                       message |-> last.message,
                       first |-> [panic |-> last.panic, result |-> last.result],
                       second |-> [panic |-> r.panic, result |-> r.result]]
    /\ UNCHANGED <<issued, absent, verifier, tree, proof>>

TwinNext ==
    \/ \E seed \in Seeds, mr \in Retries, sp \in Specs, lt \in Lifetimes :
          New(1, seed, mr, sp, lt)
    \/ TwinNew
    \/ \E e \in Epochs, m \in Messages : TwinSign(e, m)
    \/ TwinReplay

TwinSpec == Init /\ [][TwinNext]_vars

(* ------- a caller that keeps the signatures it was given --------------- *)
\* signer.sign(epoch, &message); the caller holds on to the signature of this call
\* and to one earlier signature: the one it held before, or the previous call's
KeptSign(epoch, message, keep) ==
    /\ pc = "running"
    /\ signer[1].alive
    /\ NoncesDrawn(signer[1]) < MaxDraws
    /\ last.op \in {"new", "kept_sign"}
    /\ keep => (last.op = "kept_sign" /\ last.cur.some /\ last.held.some)
    /\ \E r \in {Signer_sign(signer[1], epoch, message)} :
       \E held \in {IF last.op # "kept_sign" THEN NotIssued
                    ELSE IF last.cur.some /\ ~keep THEN last.cur ELSE last.held} :
           /\ pc' = IF r.panic THEN "aborted" ELSE "running"
           /\ signer' = [signer EXCEPT ![1] = r.self]
           /\ last' = [op |-> "kept_sign", panic |-> r.panic, held |-> held,
                       cur |-> IF r.result.some
                               THEN [some |-> TRUE, epoch |-> epoch, message |-> message,
                                     sig |-> r.result]
                               ELSE NotIssued]
    /\ UNCHANGED <<issued, absent, verifier, tree, proof>>

KeptNext ==
    \/ \E seed \in Seeds, mr \in Retries, sp \in Specs, lt \in Lifetimes :
          New(1, seed, mr, sp, lt)
    \/ \E e \in Epochs, m \in Messages, keep \in BOOLEAN : KeptSign(e, m, keep)

KeptSpec == Init /\ [][KeptNext]_vars

(* ------- verification of signatures put together by a forger ---------- *)
Edits == {"keep", "junk", "drop", "append"}

\* what a forger does to a sequence of hashes: replace the first, drop the last, or
\* append one
Edited(hashes, e) ==
    CASE e = "junk" -> [hashes EXCEPT ![1] = JunkHash]
      [] e = "drop" -> SubSeq(hashes, 1, Len(hashes) - 1)
      [] e = "append" -> Append(hashes, JunkHash)
      [] OTHER -> hashes

\* a forgery starts from an issued signature and changes the message or the nonce,
\* the intermediate hashes, the end hashes, the param carried by the public key or the
\* param passed to the verifier, and verifies against the signer's root or against
\* the root of a one-leaf tree of the forger's own
Forgeries ==
    [input : {"keep", "message", "nonce"}, hashes : Edits, end_hashes : Edits,
     params : {"same", "pk", "outer", "both"}, root : {"signer", "own"}]

\* the arguments of the verify_signature call a forgery leads to
ForgedArgs(self, entry, f) ==
    LET sig == entry.sig
        other == [i \in 1..Len(self.param) |-> (self.param[i] + 1) % NonceSpace]
        param == IF f.params \in {"outer", "both"} THEN other ELSE self.param
        pk == [param |-> IF f.params \in {"pk", "both"} THEN other
                         ELSE sig.public_key.param,
               end_hashes |-> Edited(sig.public_key.end_hashes, f.end_hashes)]
        own == HashTree_new(param, <<tweak_public_key_hash(param, pk)>>)
        own_proof == HashTree_get_proof(own, 0)
    IN  [spec |-> self.spec,
         param |-> param,
         message |-> IF f.input = "message"
                     THEN (entry.message + 1) % (MaxMessage + 1) ELSE entry.message,
         signature |->
            [some |-> TRUE,
             signature |->
                [nonce |-> IF f.input = "nonce"
                           THEN (sig.signature.nonce + 1) % NonceSpace
                           ELSE sig.signature.nonce,
                 hashes |-> Edited(sig.signature.hashes, f.hashes)],
             hash_tree_proof |->
                IF f.root = "own"
                THEN [leaf_index |-> own_proof.leaf_index, path |-> own_proof.path]
                ELSE sig.hash_tree_proof,
             public_key |-> pk],
         root |-> IF f.root = "own" THEN own.root ELSE self.root]

\* verify_signature(&spec, &param, &message, &signature, &root) on a forgery of the
\* signature the sign call has just returned
VerifyForged(f) ==
    /\ pc = "running"
    /\ signer[1].alive
    /\ last.op = "sign" /\ last.some
    /\ issued[1].some
    /\ \E a \in {ForgedArgs(signer[1], issued[1], f)} :
       \E r \in {verify_signature(a.spec, a.param, a.message, a.signature, a.root)} :
           /\ pc' = IF r.panic THEN "aborted" ELSE "verified"
           /\ last' = [op |-> "verify_forged", forge |-> f, args |-> a,
                       panic |-> r.panic, ok |-> r.ok]
    /\ UNCHANGED <<signer, issued, absent, verifier, tree, proof>>

ForgeNext ==
    \/ \E seed \in Seeds, sp \in Specs, lt \in {1, 2} : New(1, seed, MaxRetries, sp, lt)
    \/ \E e \in Epochs, m \in Messages : ~issued[1].some /\ Sign(1, e, m)
    \/ \E f \in Forgeries : VerifyForged(f)

ForgeSpec == Init /\ [][ForgeNext]_vars

(* ------- a proof whose leaf_index is any machine word (deserialised) --- *)
\* indices below the leaf count, and 2^32, 2^33, 2^33 + 1, 2^34 and 2^63
WideIndexes ==
    {usize_of(i) : i \in 0..3} \cup
    {<<0, 0, 0, 0, 1, 0, 0, 0>>, <<0, 0, 0, 0, 2, 0, 0, 0>>, <<1, 0, 0, 0, 2, 0, 0, 0>>,
     <<0, 0, 0, 0, 4, 0, 0, 0>>, <<0, 0, 0, 0, 0, 0, 0, 128>>}

\* HashTreeProof { leaf_index, path: proof.path }.verify(&param, &leaves[j], &root),
\* next to the same call on the proof as get_proof returned it
ProofVerifyAs(leaf_index, j) ==
    /\ pc = "running"
    /\ tree.alive
    /\ proof.some
    /\ j < Len(tree.levels[1])
    /\ pc' = "verified"
    /\ last' = [op |-> "proof_verify_as", index |-> leaf_index, j |-> j,
                ok |-> HashTreeProof_verify([leaf_index |-> leaf_index,
                                             path |-> proof.path],
                                            tree.param, tree.levels[1][j + 1], tree.root),
                stored_ok |-> HashTreeProof_verify(proof, tree.param,
                                                   tree.levels[1][j + 1], tree.root)]
    /\ UNCHANGED <<signer, issued, absent, verifier, tree, proof>>

IndexNext ==
    \/ \E seed \in Seeds, leaves \in LeafVectors : TreeNew(<<seed>>, leaves)
    \/ \E i \in 0..MaxLeaves : GetProof(i)
    \/ \E x \in WideIndexes, j \in 0..MaxLeaves : ProofVerifyAs(x, j)

IndexSpec == Init /\ [][IndexNext]_vars

(* ------- verification of signature values of any shape --------------- *)
\* message_hash_len and coordinate_resolution_bits of the specs tried: every
\* well-formed resolution, and hash lengths up to the whole digest
AnyShapes ==
    {<<1, 1>>, <<1, 2>>, <<1, 4>>, <<1, 8>>, <<2, 2>>, <<2, 8>>, <<HASH_LEN, 8>>}
AnyParams == {<<>>, <<1>>, <<0, 2>>}
HashSeqs == {[i \in 1..n |-> JunkHash] : n \in 0..MaxHashes}

\* a proof of index 0 without siblings, of index 2^33 with one, of 2^63 with two
AnyProofs ==
    {[leaf_index |-> usize_of(0), path |-> <<>>],
     [leaf_index |-> <<0, 0, 0, 0, 2, 0, 0, 0>>, path |-> <<JunkHash>>],
     [leaf_index |-> <<0, 0, 0, 0, 0, 0, 0, 128>>, path |-> <<JunkHash, JunkHash>>]}

\* the inputs of a verification: a spec of hash length len and resolution w whose
\* target_sum is the sum of the codeword of (pk_param, message, nonce) or one
\* more, and a signature value put together from the parts given
AnyArgs(len, w, exact, param, pk_param, message, nonce, hashes, end_hashes, hash_tree_proof, own) ==
    LET at0 == MkSpec(len, w, Len(param), 0)
        sum == Codeword_sum(Codeword_new(at0, pk_param, message, nonce))
        pk == [param |-> pk_param, end_hashes |-> end_hashes]
    IN  [spec |-> MkSpec(len, w, Len(param), IF exact THEN sum ELSE sum + 1),
         param |-> param,
         message |-> message,
         signature |-> [some |-> TRUE,
                        signature |-> [nonce |-> nonce, hashes |-> hashes],
                        hash_tree_proof |-> hash_tree_proof,
                        public_key |-> pk],
         root |-> IF own THEN tweak_public_key_hash(param, pk) ELSE JunkHash]

\* the chains a verification of these inputs walks are at most MaxWalk steps long
WalkBounded(a) ==
    LET c == Codeword_new(a.spec, a.signature.public_key.param, a.message,
                          a.signature.signature.nonce).coords
        n == IF Len(a.signature.signature.hashes) < Len(c)
             THEN Len(a.signature.signature.hashes) ELSE Len(c)
    IN  \A i \in 1..n : chain_len(a.spec) - 1 - c[i] <= MaxWalk

\* verify_signature(&spec, &param, &message, &signature, &root)
VerifyAny(a) ==
    /\ pc = "running"
    /\ last.op = "init"
    /\ WalkBounded(a)
    /\ \E r \in {verify_signature(a.spec, a.param, a.message, a.signature, a.root)} :
           /\ pc' = IF r.panic THEN "aborted" ELSE "verified"
           /\ last' = [op |-> "verify_any", args |-> a, panic |-> r.panic, ok |-> r.ok]
    /\ UNCHANGED <<signer, issued, absent, verifier, tree, proof>>

\* AggregatedVerifier::new(roots, spec).verify(&message, &aggregated) on n copies of
\* the signature value, its root registered or not
AggVerifyAny(a, n, registered) ==
    /\ pc = "running"
    /\ last.op = "init"
    /\ WalkBounded(a)
    /\ \E self \in {AggregatedVerifier_new(IF registered THEN <<a.root>> ELSE <<>>, a.spec)} :
       \E aggregated \in {[k \in 1..n |->
                              [epoch |-> 0, signature |-> a.signature,
                               xmss_root |-> a.root, param |-> a.param]]} :
       \E r \in {AggregatedVerifier_verify(self, a.message, aggregated)} :
           /\ pc' = IF r.panic THEN "aborted" ELSE "verified"
           /\ last' = [op |-> "agg_verify_any", args |-> a, n |-> n,
                       registered |-> registered, panic |-> r.panic, ok |-> r.ok]
    /\ UNCHANGED <<signer, issued, absent, verifier, tree, proof>>

AnyNext ==
    \/ /\ last.op = "init"
       /\ \E sh \in AnyShapes, exact \in BOOLEAN, param \in {<<>>, <<1>>},
             pk_param \in AnyParams, m \in Messages, nonce \in 0..(NonceSpace - 1),
             hs \in HashSeqs, es \in HashSeqs, p \in AnyProofs, own \in BOOLEAN :
             VerifyAny(AnyArgs(sh[1], sh[2], exact, param, pk_param, m, nonce, hs, es,
                               p, own))
    \/ /\ last.op = "init"
       /\ \E sh \in AnyShapes, pk_param \in AnyParams, m \in Messages,
             nonce \in 0..(NonceSpace - 1), hs \in HashSeqs, n \in 0..MaxAgg,
             registered \in BOOLEAN :
             AggVerifyAny(AnyArgs(sh[1], sh[2], TRUE, pk_param, pk_param, m, nonce, hs,
                                  hs, [leaf_index |-> usize_of(0), path |-> <<>>],
                                  TRUE),
                          n, registered)

AnySpec == Init /\ [][AnyNext]_vars

(* ------- a signature adapted to another message by hashing forward ----- *)
\* the coordinates of the codeword of a message and a nonce under the signer's param
CoordsOf(self, message, nonce) ==
    Codeword_new(self.spec, self.param, message, nonce).coords

\* the issued signature with the nonce replaced and every intermediate hash walked
\* forward to the coordinate the other codeword has on its chain, where that
\* coordinate is not below the one signed (a hash cannot be walked back)
Adapted(self, entry, message, nonce) ==
    LET from == CoordsOf(self, entry.message, entry.sig.signature.nonce)
        to == CoordsOf(self, message, nonce)
        hashes == entry.sig.signature.hashes
    IN  [entry.sig EXCEPT !.signature =
            [nonce |-> nonce,
             hashes |-> [i \in 1..Len(hashes) |->
                            IF to[i] >= from[i]
                            THEN hash_chain(self.param, i - 1, hashes[i], from[i],
                                            to[i] - from[i])
                            ELSE hashes[i]]]]

\* verify_signature(&spec, &param, &message, &adapted, &root)
VerifyAdapted(message, nonce) ==
    /\ pc = "running"
    /\ signer[1].alive
    /\ last.op = "sign" /\ last.some
    /\ issued[1].some
    /\ \E r \in {verify_signature(signer[1].spec, signer[1].param, message,
                                  Adapted(signer[1], issued[1], message, nonce),
                                  signer[1].root)} :
           /\ pc' = IF r.panic THEN "aborted" ELSE "verified"
           /\ last' = [op |-> "verify_adapted", message |-> message, nonce |-> nonce,
                       panic |-> r.panic, ok |-> r.ok]
    /\ UNCHANGED <<signer, issued, absent, verifier, tree, proof>>

AdaptNext ==
    \/ \E seed \in Seeds, sp \in Specs, lt \in {1, 2} : New(1, seed, MaxRetries, sp, lt)
    \/ \E e \in Epochs, m \in Messages : ~issued[1].some /\ Sign(1, e, m)
    \/ \E m \in Messages, nonce \in 0..(NonceSpace - 1) : VerifyAdapted(m, nonce)

AdaptSpec == Init /\ [][AdaptNext]_vars

(* ------- the four tweaked hashes on arguments of the caller's choice --- *)
\* Hash([b; 32]): 32 bytes of one value
Hash32(b) == [i \in 1..HASH_LEN |-> b]
Hash32s == {Hash32(0), Hash32(1)}

\* params of one length, filled with a byte that is also a tweak
ParamsOfLen(n) == {[i \in 1..n |-> b] : b \in {0, 1, 2}}

\* public keys of any number of end hashes
EndHashSeqs == UNION {[1..k -> Hash32s] : k \in 0..MaxEndHashes}

\* tweak_hash_message, tweak_hash_chain, tweak_hash_tree_node and
\* tweak_public_key_hash, each under a param of its own of the length param_len
Tweaks(param_len, params, nonce, message, hash, a, b, end_hashes) ==
    /\ pc = "running"
    /\ last.op = "init"
    /\ pc' = "verified"
    /\ last' = [op |-> "tweaks", param_len |-> param_len,
                message |-> tweak_hash_message(params[1], message, nonce),
                chain |-> tweak_hash_chain(params[2], a, b, hash),
                tree |-> tweak_hash_tree_node(params[3], hash, Hash32(1 - hash[1]),
                                              as_u32(usize_of(a)), as_u32(usize_of(b))),
                leaf |-> tweak_public_key_hash(params[4],
                                               [param |-> params[4],
                                                end_hashes |-> end_hashes])]
    /\ UNCHANGED <<signer, issued, absent, verifier, tree, proof>>

TweakNext ==
    /\ last.op = "init"
    /\ \E n \in 0..MaxParamLen : \E params \in [1..4 -> ParamsOfLen(n)] :
       \E nonce \in {0, NonceSpace - 1}, m \in {0}, h \in Hash32s, a \in 0..1, b \in 0..1,
          ehs \in EndHashSeqs :
          Tweaks(n, params, nonce, m, h, a, b, ehs)

TweakSpec == Init /\ [][TweakNext]_vars

(* ------------------------------ claims -------------------------------- *)

\* C1: whatever sign calls came before, a signature returned by sign(e, m)
\* verifies for m against the signer's spec, param and root.
SignVerifyRoundTrip ==
    (last.op = "verify" /\ last.tamper.kind = "none") => (~last.panic /\ last.ok)

SignVerifyRoundTripWitness ==
    /\ last.op = "verify" /\ last.tamper.kind = "none" /\ last.ok
    /\ issued[last.s].epoch > 0
    /\ NoncesDrawn(signer[last.s]) > 1

\* C2: the codeword recomputed from a returned signature's (public_key.param,
\* message, nonce) has exactly d coordinates, each below L, summing to target_sum.
IssuedCodewordValid ==
    (last.op = "sign" /\ last.some) =>
        LET s == last.s
            sp == signer[s].spec
            cw == Codeword_new(sp, issued[s].sig.public_key.param, last.message,
                               issued[s].sig.signature.nonce)
        IN  /\ ~cw.panic
            /\ Len(cw.coords) = dimension(sp)
            /\ \A i \in 1..Len(cw.coords) :
                  cw.coords[i] >= 0 /\ cw.coords[i] < chain_len(sp)
            /\ SumSeq(cw.coords) = sp.target_sum

IssuedCodewordValidWitness ==
    /\ last.op = "sign" /\ last.some
    /\ last.after.pos - last.before.pos > 1
    /\ issued[last.s].sig.public_key.param = signer[last.s].param

\* the codeword a verifier rebuilds for message m and nonce n under the issued key
RebuiltValid(s, m, n) ==
    new_valid(signer[s].spec, issued[s].sig.public_key.param, m, n).some

\* C3: an issued signature checked against another message, or with another
\* nonce, is rejected (spec, param and root as issued).
MessageBinding ==
    (last.op = "verify" /\ last.tamper.kind \in {"message", "nonce"}) =>
        (~last.panic /\ ~last.ok)

\* the other message, or the other nonce, has a valid codeword of its own under
\* the issued key, so that the rejection comes from the chains
MessageBindingWitness ==
    /\ last.op = "verify" /\ ~last.ok
    /\ \/ /\ last.tamper.kind = "message"
          /\ RebuiltValid(last.s, last.tamper.c, issued[last.s].sig.signature.nonce)
       \/ /\ last.tamper.kind = "nonce"
          /\ RebuiltValid(last.s, issued[last.s].message, last.tamper.c)

\* C4: an issued signature with one intermediate hash, one end hash, one path
\* element or the expected root replaced by a different value is rejected.
TamperRejected ==
    (last.op = "verify" /\ last.tamper.kind \in {"hash", "end_hash", "path", "root"}) =>
        (~last.panic /\ ~last.ok)

TamperRejectedWitness ==
    /\ last.op = "verify" /\ ~last.ok
    /\ last.tamper.kind = "path" /\ last.tamper.i = 2


\* the k-th nonce (from 0) the generator yields from the position before the call
NonceAt(k) == StreamByte([last.before EXCEPT !.pos = @ + k], 0)

\* whether that nonce makes a codeword of the target sum for the call's message
ValidAt(k) ==
    new_valid(signer[last.s].spec, signer[last.s].param, last.message, NonceAt(k)).some

Draws == last.after.pos - last.before.pos

InRangeSign ==
    last.op = "sign" /\ ~last.panic /\ last.epoch < Len(signer[last.s].key_pairs)

\* C8: grinding draws one nonce per attempt and at most max_retries of them; it
\* stops at the first valid one and returns it, and returns absence exactly when
\* none of the first max_retries is valid (without a draw when max_retries = 0).
GrindBounded ==
    InRangeSign =>
        LET mr == signer[last.s].max_retries
        IN  /\ Draws >= 0 /\ Draws <= mr
            /\ last.some =>
                  /\ Draws >= 1
                  /\ ValidAt(Draws - 1)
                  /\ \A k \in 0..(Draws - 2) : ~ValidAt(k)
                  /\ issued[last.s].sig.signature.nonce = NonceAt(Draws - 1)
            /\ ~last.some =>
                  /\ Draws = mr
                  /\ \A k \in 0..(mr - 1) : ~ValidAt(k)

\* a success with attempts to spare, the next nonce being valid as well
GrindBoundedWitness ==
    /\ InRangeSign /\ last.some
    /\ Draws >= 1 /\ Draws < signer[last.s].max_retries
    /\ ValidAt(Draws)

\* the fields of a signer other than its generator
Frame(self) == IF self.alive THEN [self EXCEPT !.rng = 0] ELSE self

AbsentStep ==
    /\ last'.op = "sign" /\ ~last'.panic /\ ~last'.some
    /\ signer[last'.s].alive

\* C9: for an in-range epoch sign returns absence exactly when the grinder used up
\* max_retries attempts; an absent result leaves key pairs, tree, root, param and
\* spec as they were, and a signature issued after one verifies against the root.
SignAbsence ==
    /\ [](InRangeSign =>
            (~last.some <=> \A k \in 0..(signer[last.s].max_retries - 1) : ~ValidAt(k)))
    /\ [][AbsentStep => (\A s \in SignerIds : Frame(signer'[s]) = Frame(signer[s]))]_vars
    /\ []((last.op = "verify" /\ last.tamper.kind = "none"
           /\ issued[last.s].after_absence) => last.ok)

\* a signature that was issued after an absent result has been verified
SignAbsenceWitness ==
    /\ last.op = "verify" /\ last.tamper.kind = "none" /\ last.ok
    /\ issued[last.s].after_absence
    /\ signer[last.s].max_retries > 0

\* C10: sign with epoch >= lifetime panics, whatever the message and max_retries,
\* and has drawn nothing from the generator when it does.
EpochOutOfRangeAborts ==
    (last.op = "sign" /\ last.epoch >= Len(signer[last.s].key_pairs)) =>
        /\ last.panic /\ ~last.some /\ pc = "aborted"
        /\ last.after = last.before

EpochOutOfRangeAbortsWitness ==
    /\ last.op = "sign" /\ last.panic
    /\ last.epoch >= Len(signer[last.s].key_pairs)
    /\ signer[last.s].max_retries > 0
    /\ ValidAt(0)


\* an element of the aggregate as verify_signature sees it
ElementOk(a) ==
    /\ contains(verifier.roots, a.xmss_root)
    /\ verify_signature(verifier.spec, a.param, last.message, a.signature, a.xmss_root).ok

\* C5: AggregatedVerifier::verify accepts exactly when every element has a
\* registered root and verifies against it; an empty aggregate is accepted, and a
\* non-empty one is rejected when no root is registered.
AggregateIffAll ==
    (last.op = "agg_verify") =>
        LET A == Aggregate(last.desc)
        IN  /\ ~last.panic
            /\ last.ok <=> (\A k \in 1..Len(A) : ElementOk(A[k]))
            /\ (Len(A) = 0) => last.ok
            /\ (Len(A) > 0 /\ Len(verifier.roots) = 0) => ~last.ok

\* an aggregate of one good element and one whose root is registered but whose
\* signature does not verify against it
AggregateIffAllWitness ==
    /\ last.op = "agg_verify" /\ ~last.ok
    /\ Len(last.desc) = 2
    /\ LET A == Aggregate(last.desc)
       IN  /\ ElementOk(A[1])
           /\ contains(verifier.roots, A[2].xmss_root)
           /\ ~ElementOk(A[2])

Relabel(A, labels) == [k \in 1..Len(A) |-> [A[k] EXCEPT !.epoch = labels[k]]]

\* C6: the epoch fields do not matter: however the elements of an aggregate are
\* relabelled, the verdict is the same.
EpochIgnored ==
    (last.op = "agg_verify") =>
        LET A == Aggregate(last.desc)
        IN  \A labels \in [1..Len(A) -> 0..1] :
               LET r == AggregatedVerifier_verify(verifier, last.message,
                                                  Relabel(A, labels))
               IN  r.ok = last.ok /\ r.panic = last.panic

\* an accepted aggregate whose signatures were made at epoch 1: it is accepted as
\* well with the labels 0
EpochIgnoredWitness ==
    /\ last.op = "agg_verify" /\ last.ok
    /\ Len(last.desc) = 2
    /\ \A k \in 1..2 : issued[last.desc[k].s].epoch = 1
    /\ AggregatedVerifier_verify(verifier, last.message,
                                 Relabel(Aggregate(last.desc), <<0, 0>>)).ok

\* C7 as claimed: the proof of leaf i verifies leaves[i] and no leaves[j], j # i.
MerkleMembershipByIndex ==
    (last.op = "proof_verify" /\ last.i < Len(tree.levels[1])) =>
        (last.ok <=> (last.j = last.i))

\* C7 as it holds: the proof of leaf i verifies leaves[i], and verifies leaves[j]
\* exactly when leaves[j] is the same value as leaves[i].
MerkleMembership ==
    (last.op = "proof_verify" /\ last.i < Len(tree.levels[1])) =>
        (last.ok <=> (tree.levels[1][last.j + 1] = tree.levels[1][last.i + 1]))

MerkleMembershipWitness ==
    /\ last.op = "proof_verify" /\ ~last.ok
    /\ last.j # last.i
    /\ Len(proof.path) = 2 /\ last.i = 3


\* the counts 1, 2, 4, ...
PowerOfTwoCount(n) == \E k \in 0..n : n = 2 ^ k

\* C11: HashTree::new aborts exactly on the leaf counts that are not a power of two
\* (zero included), and Signer::new on such lifetimes; with one leaf the root is
\* that leaf and the proof's path is empty.
PowerOfTwoLeaves ==
    /\ (last.op = "tree_new") => (last.panic <=> ~PowerOfTwoCount(last.n))
    /\ (last.op = "new") => (last.panic <=> ~PowerOfTwoCount(last.lifetime))
    /\ (tree.alive /\ Len(tree.levels[1]) = 1) => tree.root = tree.levels[1][1]
    /\ (tree.alive /\ Len(tree.levels[1]) = 1 /\ proof.some) => proof.path = <<>>
    /\ (signer[1].alive /\ Len(signer[1].key_pairs) = 1) =>
          /\ signer[1].root = tweak_public_key_hash(signer[1].param,
                                                    signer[1].key_pairs[1].pk)
          /\ HashTree_get_proof(signer[1].hash_tree, 0).path = <<>>

\* a signer asked for with three epochs: the construction aborted
PowerOfTwoLeavesWitness ==
    last.op = "new" /\ last.lifetime = 3 /\ last.panic /\ pc = "aborted"


RECURSIVE ChainValue(_, _, _, _, _)
\* the reference recursion: the value s steps after h, h being at position p
ChainValue(param, c, h, p, s) ==
    IF s = 0 THEN h
    ELSE tweak_hash_chain(param, c, p + s, ChainValue(param, c, h, p, s - 1))

\* C12: hash_chain(param, c, h, p, s) is h when s = 0 and otherwise s applications
\* of the chain hash, the j-th at position p + j + 1 on the previous value.
HashChainReference ==
    (last.op = "hash_chain") =>
        /\ last.out = ChainValue(last.param, last.chain_index, last.start_hash,
                                 last.start_pos, last.steps)
        /\ (last.steps = 0) => last.out = last.start_hash
        /\ (last.steps = 1) =>
              last.out = tweak_hash_chain(last.param, last.chain_index,
                                          last.start_pos + 1, last.start_hash)

\* a walk of three steps that does not start at position 0
HashChainReferenceWitness ==
    /\ last.op = "hash_chain" /\ last.steps = 3 /\ last.start_pos = 2
    /\ last.out # last.start_hash

\* C13: a walk of k1 steps followed by a walk of k2 steps from where it ended is
\* the walk of k1 + k2 steps; from position 0 and with k1 + k2 = L - 1 it ends at
\* the end hash Pk::derive computes for that chain.
HashChainComposes ==
    (last.op = "hash_chain_on") =>
        LET f == last.first
        IN  /\ last.out = hash_chain(f.param, f.chain_index, f.start_hash, f.start_pos,
                                     f.steps + last.steps)
            /\ \A sp \in Specs :
                  (f.start_pos = 0 /\ f.steps + last.steps = chain_len(sp) - 1) =>
                      last.out =
                          Pk_derive([param |-> f.param,
                                     start_hashes |-> [i \in 1..(f.chain_index + 1) |->
                                                          f.start_hash]],
                                    sp).end_hashes[f.chain_index + 1]

\* the signer walked one step from the start of chain 1 and the verifier the two
\* steps that were left of a chain of length 4
HashChainComposesWitness ==
    /\ last.op = "hash_chain_on"
    /\ last.first.start_pos = 0 /\ last.first.chain_index = 1
    /\ last.first.steps = 1 /\ last.steps = 2


\* bit i of a byte, bit 0 being the least significant
Bit(b, i) == (b \div (2 ^ i)) % 2

RECURSIVE BitsValue(_, _, _)
\* the number whose w bits, least significant first, are the bits of b from bit `from`
BitsValue(b, from, w) ==
    IF w = 0 THEN 0 ELSE Bit(b, from) + 2 * BitsValue(b, from + 1, w - 1)

\* C14: for w in {1, 2, 4, 8} bytes_to_coordinates gives 8b/w coordinates below 2^w,
\* bytes in order and within a byte the least significant bits first; 0b01101100
\* with w = 2 gives 0, 3, 2, 1; with w = 8 the coordinates are the bytes.
CoordinatesLsbFirst ==
    (last.op = "bytes_to_coordinates" /\ last.w \in {1, 2, 4, 8}) =>
        LET per == 8 \div last.w
        IN  /\ ~last.panic
            /\ Len(last.coords) = Len(last.bytes) * per
            /\ \A n \in 1..Len(last.coords) :
                  /\ last.coords[n] \in 0..(2 ^ last.w - 1)
                  /\ last.coords[n] = BitsValue(last.bytes[((n - 1) \div per) + 1],
                                                ((n - 1) % per) * last.w, last.w)
            /\ (last.bytes = <<108>> /\ last.w = 2) => last.coords = <<0, 3, 2, 1>>
            /\ (last.w = 8) => last.coords = last.bytes

\* the byte of the unit test, cut into four coordinates of two bits
CoordinatesLsbFirstWitness ==
    /\ last.op = "bytes_to_coordinates" /\ last.w = 2 /\ last.bytes = <<108>>
    /\ last.coords = <<0, 3, 2, 1>>

\* C15: for w in {1, 2, 4, 8} bytes_to_coordinates is a bijection between the byte
\* strings of length b and the sequences of 8b/w coordinates below 2^w: no other
\* byte string has the same coordinates, packing the coordinates gives the bytes
\* back, and every coordinate sequence is the image of the string it packs to.
CoordinatesBijection ==
    /\ (last.op = "bytes_to_coordinates" /\ last.w \in {1, 2, 4, 8}) =>
          /\ Pack(last.coords, last.w) = last.bytes
          /\ \A other \in ByteStrings :
                (Len(other) = Len(last.bytes) /\ other # last.bytes) =>
                    bytes_to_coordinates(other, last.w).coords # last.coords
    /\ (last.op = "coordinates_of_packed") =>
          /\ ~last.panic
          /\ Len(last.bytes) * (8 \div last.w) = Len(last.wanted)
          /\ \A k \in 1..Len(last.bytes) : last.bytes[k] \in 0..255
          /\ last.coords = last.wanted

\* a sequence of four two-bit coordinates, not all equal, that is the image of the
\* byte it packs to
CoordinatesBijectionWitness ==
    /\ last.op = "coordinates_of_packed" /\ last.w = 2
    /\ last.wanted = <<1, 0, 3, 2>> /\ last.coords = last.wanted


\* C16 as claimed: with a resolution that does not divide 8 Signer::new aborts, and
\* no sign call on a signer of such a spec returns normally.
ResolutionRejectedAtConstruction ==
    /\ (last.op = "new") => last.panic
    /\ (last.op = "sign") => last.panic


OneTimeUse ==
    (last.op = "kept_sign" /\ last.held.some /\ last.cur.some
        /\ last.held.epoch = last.cur.epoch) =>
        last.held.message = last.cur.message

\* C18 as it holds: a signature returned by sign(epoch, message) is made with the
\* key pair of that epoch and carries its public key and the proof of its leaf, and
\* the key pairs never change; so two signatures are under the same one-time key
\* only if the caller passed the same epoch twice.
OneTimeUseByCaller ==
    (last.op = "kept_sign") =>
        /\ last.cur.some =>
              /\ last.cur.sig.public_key = signer[1].key_pairs[last.cur.epoch + 1].pk
              /\ last.cur.sig.hash_tree_proof.leaf_index = usize_of(last.cur.epoch)
        /\ last.held.some =>
              last.held.sig.public_key = signer[1].key_pairs[last.held.epoch + 1].pk
        /\ (last.held.some /\ last.cur.some
               /\ last.held.sig.public_key = last.cur.sig.public_key) =>
              last.held.epoch = last.cur.epoch

\* two signatures for different messages at different epochs: two different keys
OneTimeUseByCallerWitness ==
    /\ last.op = "kept_sign" /\ last.held.some /\ last.cur.some
    /\ last.held.epoch # last.cur.epoch
    /\ last.held.message # last.cur.message
    /\ last.held.sig.public_key # last.cur.sig.public_key


\* (1) the codeword rebuilt from the public key's param, the message and the nonce
\* sums to target_sum
CodewordOk(a) ==
    LET c == Codeword_new(a.spec, a.signature.public_key.param, a.message,
                          a.signature.signature.nonce)
    IN  ~c.panic /\ SumSeq(c.coords) = a.spec.target_sum

\* (2) for every chain i in [0, d) the walk from hashes[i] at position coord[i] over
\* L - 1 - coord[i] steps is end_hashes[i]
ChainsOk(a) ==
    LET pk == a.signature.public_key
        hashes == a.signature.signature.hashes
        coords == Codeword_new(a.spec, pk.param, a.message,
                               a.signature.signature.nonce).coords
    IN  \A i \in 1..dimension(a.spec) :
           /\ i <= Len(hashes) /\ i <= Len(pk.end_hashes)
           /\ hash_chain(pk.param, i - 1, hashes[i], coords[i],
                         chain_len(a.spec) - 1 - coords[i]) = pk.end_hashes[i]

\* (3) the proof takes the leaf H_pk(param, public_key) to the root under the outer
\* param
ProofOk(a) ==
    HashTreeProof_verify(a.signature.hash_tree_proof, a.param,
                         tweak_public_key_hash(a.param, a.signature.public_key), a.root)

\* C19 as claimed: verify_signature returns true exactly when the codeword is valid,
\* every one of the d chains walks to its end hash, and the proof verifies the
\* public key's leaf against the root.
VerifyIffThreeConditions ==
    (last.op = "verify_forged") =>
        /\ ~last.panic
        /\ last.ok <=> (CodewordOk(last.args) /\ ChainsOk(last.args) /\ ProofOk(last.args))

\* C20 as claimed: verify_signature returns true only if the outer param equals the
\* param carried by the signature's public key, and so does AggregatedVerifier::verify
\* for the element's param.
ParamsMustAgree ==
    (last.op = "verify_forged") =>
        LET a == last.args
        IN  /\ last.ok => a.param = a.signature.public_key.param
            /\ AggregatedVerifier_verify(
                   AggregatedVerifier_new(<<a.root>>, a.spec), a.message,
                   <<[epoch |-> 0, signature |-> a.signature, xmss_root |-> a.root,
                      param |-> a.param]>>).ok
                  => a.param = a.signature.public_key.param


\* the shape the HashTree documentation gives: h + 1 levels over n = 2^h leaves,
\* level k of n / 2^k nodes, every parent the tweaked hash of its two children
\* tagged with the children's level and the parent's index, the root on top
TreeShape(param, t) ==
    LET n == Len(t.levels[1])
        h == ilog2(n)
    IN  /\ Len(t.levels) = h + 1
        /\ \A k \in 0..h : Len(t.levels[k + 1]) = n \div (2 ^ k)
        /\ \A k \in 0..(h - 1) : \A j \in 0..((n \div (2 ^ (k + 1))) - 1) :
               t.levels[k + 2][j + 1] =
                   tweak_hash_tree_node(param, t.levels[k + 1][2 * j + 1],
                                        t.levels[k + 1][2 * j + 2],
                                        as_u32(usize_of(k)), as_u32(usize_of(j)))
        /\ t.root = t.levels[h + 1][1]

IndexBindsProof ==
    (last.op = "proof_verify_as" /\ last.ok /\ last.stored_ok /\ proof.path # <<>>) =>
        last.index = proof.leaf_index


\* the generator of a signer, as its seed and the calls made on it determine it
DrawOrder ==
    /\ \A s \in MainIds : signer[s].alive =>
          LET self == signer[s]
              d == dimension(self.spec)
              n == Len(self.key_pairs)
              fresh == StdRng_seed_from_u64(self.rng.seed)
              nonces == self.rng.pos - (1 + n * d)
          IN  /\ self.param = Param_random(self.spec.param_len, fresh).value
              /\ \A e \in 0..(n - 1) :
                    /\ Len(self.key_pairs[e + 1].sk.start_hashes) = d
                    /\ \A c \in 0..(d - 1) :
                          self.key_pairs[e + 1].sk.start_hashes[c + 1] =
                              Hash_random([fresh EXCEPT !.pos = 1 + e * d + c]).value
              /\ nonces >= 0
              /\ self.rng.drawn =
                     self.spec.param_len + HASH_LEN * n * d + RAND_LEN * nonces
    /\ (last.op = "new" /\ ~last.panic) =>
          signer[last.s].rng.pos =
              1 + Len(signer[last.s].key_pairs) * dimension(signer[last.s].spec)
    /\ InRangeSign =>
          /\ last.after.seed = last.before.seed
          /\ last.after.drawn - last.before.drawn = RAND_LEN * Draws
          /\ Draws =
                 IF \E k \in 0..(signer[last.s].max_retries - 1) : ValidAt(k)
                 THEN 1 + CHOOSE k \in 0..(signer[last.s].max_retries - 1) :
                              ValidAt(k) /\ \A j \in 0..(k - 1) : ~ValidAt(j)
                 ELSE signer[last.s].max_retries

\* a verification leaves every signer, its generator included, as it was
VerifyDrawsNothing == (last'.op = "verify") => (signer' = signer)

\* C23: Signer::new draws the param first (param_len bytes), then the d start
\* hashes (32 bytes each) of each key pair in epoch order and chain order, and
\* nothing else; a sign call draws one 23-byte nonce per grind attempt and nothing
\* else; a verification draws nothing.
RandomnessOrder == []DrawOrder /\ [][VerifyDrawsNothing]_vars

\* a signer of two epochs that has ground two nonces for one signature
RandomnessOrderWitness ==
    /\ InRangeSign /\ last.some /\ Draws = 2
    /\ Len(signer[last.s].key_pairs) = 2


\* C24: a signature returned by sign(epoch, m) has d intermediate hashes, hashes[i]
\* being chain i walked from start_hashes[i] at position 0 for coord[i] steps of
\* the ground codeword; it carries the public key stored for the epoch, whose param
\* is the signer's; and it carries the proof for leaf index epoch, whose path has
\* log2(lifetime) siblings, path[k] = levels[k][(epoch >> k) XOR 1].
SignatureContents ==
    (last.op = "sign" /\ last.some) =>
        LET self == signer[last.s]
            sig == issued[last.s].sig
            kp == self.key_pairs[last.epoch + 1]
            d == dimension(self.spec)
            cw == Codeword_new(self.spec, self.param, last.message, sig.signature.nonce)
            h == ilog2(Len(self.key_pairs))
            ancestor(k) == last.epoch \div (2 ^ k)
            sibling(k) == IF ancestor(k) % 2 = 0 THEN ancestor(k) + 1
                          ELSE ancestor(k) - 1
        IN  /\ Len(sig.signature.hashes) = d
            /\ Len(cw.coords) = d
            /\ \A i \in 0..(d - 1) :
                   sig.signature.hashes[i + 1] =
                       hash_chain(self.param, i, kp.sk.start_hashes[i + 1], 0,
                                  cw.coords[i + 1])
            /\ sig.public_key = kp.pk
            /\ sig.public_key.param = self.param
            /\ usize_value(sig.hash_tree_proof.leaf_index) = last.epoch
            /\ Len(sig.hash_tree_proof.path) = h
            /\ \A k \in 0..(h - 1) :
                   sig.hash_tree_proof.path[k + 1] =
                       self.hash_tree.levels[k + 1][sibling(k) + 1]

\* a signature of the last of four epochs, with a coordinate of several steps
SignatureContentsWitness ==
    /\ last.op = "sign" /\ last.some /\ last.epoch = 3
    /\ Len(issued[last.s].sig.hash_tree_proof.path) = 2
    /\ \E i \in 1..Len(issued[last.s].sig.signature.hashes) :
           issued[last.s].sig.signature.hashes[i] #
               signer[last.s].key_pairs[4].sk.start_hashes[i]


\* C25: an accepted aggregate holds signatures of pairwise distinct signers: no
\* xmss_root, and so no validator entry, appears in it more than once.
AcceptedSignersDistinct ==
    (last.op = "agg_verify" /\ last.ok) =>
        LET A == Aggregate(last.desc)
        IN  \A j \in 1..Len(A) : \A k \in 1..Len(A) :
               (j # k) => (A[j].xmss_root # A[k].xmss_root)


\* C26: verify_signature accepts only a signature that carries exactly d
\* intermediate hashes and a public key of exactly d end hashes; with fewer or
\* more hashes (a valid signature with a hash appended, say) it rejects.
ExactlyDimensionHashes ==
    (last.op = "verify_forged" /\ last.ok) =>
        /\ Len(last.args.signature.signature.hashes) = dimension(last.args.spec)
        /\ Len(last.args.signature.public_key.end_hashes) = dimension(last.args.spec)


\* the signer the constructor built from the same seed and arguments
AsBuilt(self) ==
    Signer_new(StdRng_seed_from_u64(self.rng.seed), self.max_retries, self.spec,
               Len(self.key_pairs)).signer

\* a signature the caller holds verifies against the signer's root as it is now
StillVerifies(entry) ==
    entry.some =>
        verify_signature(signer[1].spec, signer[1].param, entry.message, entry.sig,
                         signer[1].root).ok

\* a sign call changes nothing of the signer but its generator, which moves forward
SignStepFrame ==
    (last'.op = "kept_sign" /\ signer[1].alive) =>
        /\ Frame(signer'[1]) = Frame(signer[1])
        /\ signer'[1].rng.seed = signer[1].rng.seed
        /\ signer'[1].rng.pos >= signer[1].rng.pos

\* C27: Signer::sign leaves spec, param, root, key pairs and tree as they were,
\* whether it returns a signature or absence, and only the generator advances; so
\* after any sequence of sign calls the root is the root at construction and the
\* signatures issued earlier still verify against it.
SignKeepsSigner ==
    /\ [][SignStepFrame]_vars
    /\ [](signer[1].alive => Frame(signer[1]) = Frame(AsBuilt(signer[1])))
    /\ []((last.op = "kept_sign") => (StillVerifies(last.held) /\ StillVerifies(last.cur)))

\* an earlier signature held while a later call at another epoch returned absence
SignKeepsSignerWitness ==
    /\ last.op = "kept_sign" /\ ~last.panic
    /\ last.held.some /\ ~last.cur.some
    /\ signer[1].max_retries > 0
    /\ Len(signer[1].key_pairs) > 1


\* C28: for a spec with w in {1, 2, 4, 8} and message_hash_len <= 32,
\* verify_signature and AggregatedVerifier::verify return a boolean and never
\* abort, whatever the nonce, the numbers of hashes and end hashes, the lengths of
\* the params, the proof's index and its path; chain_len - 1 - coord never goes
\* below zero, every coordinate being at most chain_len - 1.
VerifyNeverAborts ==
    (last.op \in {"verify_any", "agg_verify_any"}) =>
        LET a == last.args
            c == Codeword_new(a.spec, a.signature.public_key.param, a.message,
                              a.signature.signature.nonce)
        IN  /\ ~last.panic /\ pc = "verified"
            /\ last.ok \in BOOLEAN
            /\ ~c.panic
            /\ \A i \in 1..Len(c.coords) :
                   c.coords[i] >= 0 /\ c.coords[i] <= chain_len(a.spec) - 1

\* a verification under w = 8 that walked a chain from a coordinate near the top,
\* with fewer end hashes than hashes, a two-byte param and a proof index of 2^63
VerifyNeverAbortsWitness ==
    /\ last.op = "verify_any" /\ ~last.panic
    /\ last.args.spec.coordinate_resolution_bits = 8
    /\ new_valid(last.args.spec, last.args.signature.public_key.param,
                 last.args.message, last.args.signature.signature.nonce).some
    /\ Len(last.args.signature.signature.hashes) = 2
    /\ Len(last.args.signature.public_key.end_hashes) = 1
    /\ last.args.signature.hash_tree_proof.leaf_index = <<0, 0, 0, 0, 0, 0, 0, 128>>


\* C29: two different codewords of the target sum are incomparable: the other one
\* is below the signed one on some chain; so a signature adapted to it by hashing
\* forward only does not verify.
TargetSumIncomparable ==
    (last.op = "verify_adapted") =>
        LET self == signer[1]
            from == CoordsOf(self, issued[1].message, issued[1].sig.signature.nonce)
            to == CoordsOf(self, last.message, last.nonce)
        IN  (new_valid(self.spec, self.param, last.message, last.nonce).some
             /\ to # from) =>
                /\ SumSeq(from) = self.spec.target_sum
                /\ SumSeq(to) = self.spec.target_sum
                /\ \E i \in 1..Len(from) : to[i] < from[i]
                /\ ~last.ok

\* another valid codeword, above the signed one on a chain that was walked forward
TargetSumIncomparableWitness ==
    /\ last.op = "verify_adapted" /\ ~last.ok
    /\ new_valid(signer[1].spec, signer[1].param, last.message, last.nonce).some
    /\ LET from == CoordsOf(signer[1], issued[1].message,
                            issued[1].sig.signature.nonce)
           to == CoordsOf(signer[1], last.message, last.nonce)
       IN  /\ to # from
           /\ \E i \in 1..Len(from) : to[i] > from[i]


\* what a tweaked hash fed to the permutation
Fed(h) == SubSeq(h, 2, Len(h) - 1)

\* C30: under params of one length the inputs of the message hash, the chain hash
\* and the tree-node hash carry 0x02, 0x00 and 0x01 right after the param, so they
\* differ from each other; and the input of a public-key leaf hash, which carries
\* 0x01 as well, never equals the input of a tree-node hash.
DomainSeparation ==
    (last.op = "tweaks") =>
        /\ Fed(last.message)[last.param_len + 1] = 2
        /\ Fed(last.chain)[last.param_len + 1] = 0
        /\ Fed(last.tree)[last.param_len + 1] = 1
        /\ Fed(last.leaf)[last.param_len + 1] = 1
        /\ Fed(last.message) # Fed(last.chain)
        /\ Fed(last.message) # Fed(last.tree)
        /\ Fed(last.message) # Fed(last.leaf)
        /\ Fed(last.chain) # Fed(last.tree)
        /\ Fed(last.chain) # Fed(last.leaf)
        /\ Fed(last.leaf) # Fed(last.tree)
        /\ last.message # last.chain /\ last.message # last.tree
        /\ last.message # last.leaf /\ last.chain # last.tree
        /\ last.chain # last.leaf /\ last.leaf # last.tree

\* a public key of two end hashes that are the children of the node, under the
\* param of the node
DomainSeparationWitness ==
    /\ last.op = "tweaks" /\ last.param_len = 1
    /\ Len(Fed(last.leaf)) = 1 + 1 + 2 * HASH_LEN
    /\ Len(Fed(last.tree)) = 1 + 1 + 4 + 4 + 2 * HASH_LEN
    /\ SubSeq(Fed(last.leaf), 1, 2) = SubSeq(Fed(last.tree), 1, 2)
    /\ SubSeq(Fed(last.leaf), 3, 2 + 2 * HASH_LEN) =
           SubSeq(Fed(last.tree), 11, 10 + 2 * HASH_LEN)
====
